---- MODULE Spec2Model ----
(***************************************************************************)
(* Segmented retrieval and stitching of JPL Horizons state vectors, as     *)
(* implemented by                                                          *)
(*   NASA_Data/scripts/generate_ephemeris_parker_solar_probe.py            *)
(*   NASA_Data/scripts/generate_ephemeris_voyager2.py   (chunked fetch)    *)
(*   Ephemeris/scripts/generate_ephemeris.py            (single call)      *)
(*                                                                         *)
(* Units.  Datetimes are whole seconds (parse_utcish reads a %S string,    *)
(* timedelta_seconds adds whole seconds, the earliest-epoch datetime has   *)
(* microsecond 0), so fmt_utcish loses nothing on any value the loop       *)
(* formats.  Epochs (Julian days, floats) are counted in quanta:           *)
(* QuantaPerSecond quanta make one second, and the tolerance 1e-10 is Tol  *)
(* quanta, less than one second as in the program.                         *)
(***************************************************************************)
EXTENDS Integers, Sequences, FiniteSets, TLC

VARIABLES
    script,       \* "chunked": horizons_vectors_chunked; "single": horizons_vectors
    start_time,   \* the start_time argument of the fetch, in seconds
    stop_dt,      \* parse_utcish(stop_time)
    step_s,       \* step_seconds(step_size)
    max_samples,  \* MAX_SAMPLES_PER_CALL
    start_dt,     \* the loop's cursor
    all_t,        \* accumulated epochs; the returned epochs once pc = "done"
    all_pv,       \* accumulated flattened vectors; returned once pc = "done"
    pc,           \* "loop", "done" (returned) or "failed" (raised)
    calls,        \* the sub-queries issued so far, each with its response
    logging,      \* whether calls is kept
    input,        \* the block handed to parse_vectors, a sequence of lines
    parsed,       \* what parse_vectors made of input
    mpc,          \* position of main
    n_bodies,     \* len(MAJOR_BODIES)
    t_ref,        \* t_ref / planet_t of main
    objects,      \* the objects dict of main, in insertion order
    fetched,      \* the fetches main has made, each with its outcome
    written,      \* the files handed to write_json, in order
    err           \* the message of the exception main ended with

fetchvars == <<script, start_time, stop_dt, step_s, max_samples, start_dt,
               all_t, all_pv, pc, calls, logging>>

parsevars == <<input, parsed>>

mainvars == <<mpc, n_bodies, t_ref, objects, fetched, written, err>>

vars == <<fetchvars, parsevars, mainvars>>

-----------------------------------------------------------------------------
(* Bounds of the model *)

MaxStart == 1          \* start_time ranges over 0..MaxStart
MaxT == 4              \* stop_time and server-reported times range over 0..MaxT
MaxStep == 2           \* step_s ranges over 1..MaxStep
MaxSamplesBound == 3   \* max_samples ranges over 2..MaxSamplesBound
MaxCalls == 3          \* sub-queries issued by one fetch
MaxDeviations == 1     \* responses of one fetch that are not the grid response
MaxJitter == 3         \* quanta by which a response's epochs may be off the grid
MaxBodies == 2         \* len(MAJOR_BODIES) ranges over 0..MaxBodies
MaxSeriesLen == 3      \* epochs of a Series that a fetch hands to main
MaxDrift == 3          \* quanta by which one epoch of such a Series is off
MaxLines == 3          \* lines of a block handed to the parser on its own
MaxLineEpoch == 1      \* epochs of those lines range over 0..MaxLineEpoch

(* Scale of the epoch axis *)

QuantaPerSecond == 3
Tol == 2               \* the 1e-10 of the stitch loop and of the grid check

-----------------------------------------------------------------------------
(* Arithmetic and sequence helpers *)

Reverse(s) == [i \in 1..Len(s) |-> s[Len(s) + 1 - i]]

Min(a, b) == IF a < b THEN a ELSE b

Abs(a) == IF a < 0 THEN -a ELSE a

-----------------------------------------------------------------------------
(* Response text.  A line is the sequence of its comma-separated,         *)
(* stripped fields; the blank line is << >>.  A field is coded by an       *)
(* integer: n >= 0 is a number written with a leading digit, Signed(n) a   *)
(* number written with a leading sign or point ("-1.5"), DigitTxt a text   *)
(* with a leading digit that float() rejects ("2018-Aug-12"), Txt any      *)
(* other text.  float() is one-to-one on the codes of numbers.             *)

Txt == -1

DigitTxt == -2

Signed(n) == 0 - 10 - n

\* float(f) does not raise ValueError
IsFloat(f) == f >= 0 \/ f <= Signed(0)

\* re.match(r"^\d", line), line beginning with the field f
StartsWithDigit(f) == f >= 0 \/ f = DigitTxt

\* the j-th vector component of the sample whose epoch is x
Comp(x, j) == x * 8 + j

\* the long layout: JD, calendar text, X, Y, Z, VX, VY, VZ
Line8(x) == <<x, Txt>> \o [j \in 1..6 |-> Comp(x, j)]

\* the short layout: JD, X, Y, Z, VX, VY, VZ
Line7(x) == <<x>> \o [j \in 1..6 |-> Comp(x, j)]

\* the block between $$SOE and $$EOE that lists the epochs of frag
BlockOf(frag) == [i \in 1..Len(frag) |-> Line8(frag[i])]

AllFloat(parts, a, b) == \A k \in a..b : IsFloat(parts[k])

\* the iteration without the dispatch on the field count: the vector is
\* always taken after the epoch
ParseLineShortLayout(parts) ==
    IF Len(parts) = 0 \/ ~StartsWithDigit(parts[1]) THEN << >>
    ELSE IF Len(parts) >= 7
         THEN IF IsFloat(parts[1]) /\ AllFloat(parts, 2, 7)
              THEN <<[jd |-> parts[1], pv |-> SubSeq(parts, 2, 7)]>>
              ELSE << >>
    ELSE << >>

\* one iteration of the for loop of parse_vectors: the sample of the line,
\* << >> when the line is skipped
ParseLine(parts) ==
    IF Len(parts) = 0 \/ ~StartsWithDigit(parts[1]) THEN << >>
    ELSE IF Len(parts) >= 8
         THEN IF IsFloat(parts[1]) /\ AllFloat(parts, 3, 8)
              THEN <<[jd |-> parts[1], pv |-> SubSeq(parts, 3, 8)]>>
              ELSE << >>
    ELSE IF Len(parts) >= 7
         THEN IF IsFloat(parts[1]) /\ AllFloat(parts, 2, 7)
              THEN <<[jd |-> parts[1], pv |-> SubSeq(parts, 2, 7)]>>
              ELSE << >>
    ELSE << >>

\* the loop left at the first line that gives no sample
RECURSIVE ParseLinesAbort(_)
ParseLinesAbort(block) ==
    IF block = << >> THEN [t |-> << >>, pv |-> << >>]
    ELSE LET smp == ParseLine(Head(block))
         IN  IF smp = << >> THEN [t |-> << >>, pv |-> << >>]
             ELSE LET rest == ParseLinesAbort(Tail(block))
                  IN  [t |-> <<smp[1].jd>> \o rest.t,
                       pv |-> smp[1].pv \o rest.pv]

RECURSIVE ParseLines(_)
ParseLines(block) ==
    IF block = << >> THEN [t |-> << >>, pv |-> << >>]
    ELSE LET rest == ParseLines(Tail(block))
             smp == ParseLine(Head(block))
         IN  IF smp = << >> THEN rest
             ELSE [t |-> <<smp[1].jd>> \o rest.t, pv |-> smp[1].pv \o rest.pv]

\* the post-condition with the sample count off by one
TooFewSamplesOffByOne(t, pv) == Len(t) < 1 \/ Len(pv) # Len(t) * 6

\* the post-condition without the sample count
TooFewSamplesLenient(t, pv) == Len(pv) # Len(t) * 6

\* the post-condition check of parse_vectors / _parse_vectors_csv_block
TooFewSamples(t, pv) == Len(t) < 2 \/ Len(pv) # Len(t) * 6

\* parse_vectors / _parse_vectors_csv_block: ok = FALSE when it raises
ParseVectors(block) ==
    LET r == ParseLines(block)
    IN  IF TooFewSamples(r.t, r.pv)
        THEN [ok |-> FALSE, t |-> << >>, pv |-> << >>]
        ELSE [ok |-> TRUE, t |-> r.t, pv |-> r.pv]

-----------------------------------------------------------------------------
(* The remote service *)

\* Julian-day epoch of a time in seconds
JD(sec) == sec * QuantaPerSecond

\* the samples Horizons lists for START_TIME = s, STOP_TIME = e, STEP_SIZE
GridFragment(s, e, step) ==
    IF e < s THEN << >>
    ELSE [i \in 1..((e - s) \div step + 1) |-> JD(s + (i - 1) * step)]

\* sample lists that differ from the grid samples g of a sub-query: a line
\* sent twice, the first or the last line missing, the lines in reverse
\* order, every epoch early or late by up to MaxJitter quanta
Malformed(g) ==
    {SubSeq(g, 1, i) \o SubSeq(g, i, Len(g)) : i \in 1..Len(g)}
    \cup {SubSeq(g, 2, Len(g)), SubSeq(g, 1, Len(g) - 1), Reverse(g)}
    \cup {[i \in 1..Len(g) |-> g[i] + d] :
             d \in {x \in (0 - MaxJitter)..MaxJitter :
                       \A i \in 1..Len(g) : g[i] + x >= 0}}

NoMatch == -1

\* the response kinds horizons_vectors_once tells apart
BlockResp(frag) == [kind |-> "block", t |-> frag, at |-> NoMatch]
ErrorResp(m) == [kind |-> "error", t |-> << >>, at |-> m]
NoResultResp == [kind |-> "no_result", t |-> << >>, at |-> NoMatch]
NoMarkersResp == [kind |-> "no_markers", t |-> << >>, at |-> NoMatch]

IsGridCall(c) ==
    c.r.kind = "block" /\ c.r.t = GridFragment(c.s, c.e, step_s)

Deviations == Cardinality({i \in DOMAIN calls :
                  calls[i].r.kind = "block" /\ ~IsGridCall(calls[i])})

\* the sample lists a response to the sub-query [s, e] may carry; the
\* malformed ones are counted in calls
ServerFragments(s, e) ==
    {GridFragment(s, e, step_s)} \cup
    (IF logging /\ Deviations < MaxDeviations
     THEN Malformed(GridFragment(s, e, step_s)) ELSE {})

-----------------------------------------------------------------------------
(* parse_earliest_from_error without the added second *)

parse_earliest_exact(m) == m

(* parse_earliest_from_error: the datetime named by the message, whole    *)
(* seconds, plus one second; NoMatch (None) when EARLIEST_RE finds        *)
(* nothing.  m is the time the message names, or NoMatch.                 *)

parse_earliest_from_error(m) == IF m = NoMatch THEN NoMatch ELSE m + 1

\* the error payloads: the text names a time, or EARLIEST_RE finds nothing
ErrorResponses == {ErrorResp(m) : m \in {NoMatch} \cup 0..MaxT}

\* the error with a signal for every error payload, matched or not
OnceAlwaysSignals(resp) ==
    IF resp.kind = "error" THEN "StartTooEarly"
    ELSE IF resp.kind \in {"no_result", "no_markers"} THEN "RuntimeError"
    ELSE IF ParseVectors(BlockOf(resp.t)).ok THEN "fragment"
    ELSE "RuntimeError"

\* how horizons_vectors_once ends on a response: the exception it raises,
\* or "fragment" when it returns
Once(resp) ==
    IF resp.kind = "error"
    THEN IF parse_earliest_from_error(resp.at) # NoMatch
         THEN "StartTooEarly" ELSE "RuntimeError"
    ELSE IF resp.kind \in {"no_result", "no_markers"} THEN "RuntimeError"
    ELSE IF ParseVectors(BlockOf(resp.t)).ok THEN "fragment"
    ELSE "RuntimeError"

\* the single call that tells the earliest-epoch message apart
OnceSingleWithSignal(resp) ==
    IF resp.kind = "error" /\ resp.at # NoMatch THEN "StartTooEarly"
    ELSE IF resp.kind \in {"error", "no_result", "no_markers"}
    THEN "RuntimeError"
    ELSE IF ParseVectors(BlockOf(resp.t)).ok THEN "fragment"
    ELSE "RuntimeError"

\* how horizons_vectors of generate_ephemeris.py ends on a response
OnceSingle(resp) ==
    IF resp.kind \in {"error", "no_result", "no_markers"} THEN "RuntimeError"
    ELSE IF ParseVectors(BlockOf(resp.t)).ok THEN "fragment"
    ELSE "RuntimeError"

-----------------------------------------------------------------------------
(* horizons_vectors_chunked *)

\* the span counted in samples instead of intervals
max_span_samples == step_s * max_samples

\* the span of the whole window: no chunking
max_span_window == stop_dt - start_time

max_span_s == step_s * (max_samples - 1)

\* chunk_stop without the clamp to stop_dt
chunk_stop_unclamped == start_dt + max_span_s

chunk_stop == Min(start_dt + max_span_s, stop_dt)

\* the scan with a strict comparison
RECURSIVE Idx0Strict(_, _, _)
Idx0Strict(t, last, i) ==
    IF i < Len(t) /\ t[i + 1] < last + Tol
    THEN Idx0Strict(t, last, i + 1) ELSE i

\* the inner while loop: how many leading samples of t are dropped
RECURSIVE Idx0(_, _, _)
Idx0(t, last, i) ==
    IF i < Len(t) /\ t[i + 1] <= last + Tol THEN Idx0(t, last, i + 1) ELSE i

\* Stitch without the scan: every fragment is appended whole
StitchNoScan(acc_t, acc_pv, t, pv) == [t |-> acc_t \o t, pv |-> acc_pv \o pv]

\* Stitch that slices the vectors by samples instead of by components
StitchPvBySample(acc_t, acc_pv, t, pv) ==
    IF acc_t = << >>
    THEN [t |-> t, pv |-> pv]
    ELSE LET last == acc_t[Len(acc_t)]
             idx0 == Idx0(t, last, 0)
         IN  IF idx0 < Len(t)
             THEN [t |-> acc_t \o SubSeq(t, idx0 + 1, Len(t)),
                   pv |-> acc_pv \o SubSeq(pv, idx0 + 1, Len(pv))]
             ELSE [t |-> acc_t, pv |-> acc_pv]

\* lines 235-246: adopt the first fragment, stitch a later one
Stitch(acc_t, acc_pv, t, pv) ==
    IF acc_t = << >>
    THEN [t |-> t, pv |-> pv]
    ELSE LET last == acc_t[Len(acc_t)]
             idx0 == Idx0(t, last, 0)
         IN  IF idx0 < Len(t)
             THEN [t |-> acc_t \o SubSeq(t, idx0 + 1, Len(t)),
                   pv |-> acc_pv \o SubSeq(pv, idx0 * 6 + 1, Len(pv))]
             ELSE [t |-> acc_t, pv |-> acc_pv]

\* the comparison of line 230 made strict
UnsatisfiableStrict(earliest_dt) == earliest_dt > stop_dt

\* line 230: the shifted start leaves nothing of the window
Unsatisfiable(earliest_dt) == earliest_dt >= stop_dt

\* the check at loop exit without the sample count
InvalidOutputNoCount(t, pv) == Len(pv) # Len(t) * 6

\* line 254: the check at loop exit
InvalidOutput(t, pv) == Len(t) < 2 \/ Len(pv) # Len(t) * 6

Logged(resp) ==
    IF logging
    THEN Append(calls, [s |-> start_dt, e |-> chunk_stop, r |-> resp,
                        x |-> Once(resp)])
    ELSE calls

InLoop == script = "chunked" /\ pc = "loop" /\ start_dt < stop_dt
          /\ Len(calls) < MaxCalls

\* a sub-query answered with a data block that parses
ChunkFetched ==
    /\ InLoop
    /\ \E frag \in ServerFragments(start_dt, chunk_stop) :
          LET p == ParseVectors(BlockOf(frag))
              st == Stitch(all_t, all_pv, p.t, p.pv)
          IN  /\ Once(BlockResp(frag)) = "fragment"
              /\ calls' = Logged(BlockResp(frag))
              /\ all_t' = st.t
              /\ all_pv' = st.pv
              /\ IF chunk_stop = start_dt
                 THEN /\ pc' = IF InvalidOutput(st.t, st.pv)
                                THEN "failed" ELSE "done"
                      /\ start_dt' = start_dt
                 ELSE /\ pc' = "loop"
                      /\ start_dt' = chunk_stop
    /\ UNCHANGED <<script, start_time, stop_dt, step_s, max_samples, logging>>
    /\ UNCHANGED <<parsevars, mainvars>>

\* the handler that asks the same sub-query again instead of shifting
OnStartTooEarlyRetry(earliest_dt) ==
    IF Unsatisfiable(earliest_dt)
    THEN [pc |-> "failed", start_dt |-> start_dt]
    ELSE [pc |-> "loop", start_dt |-> start_dt]

\* except StartTooEarly: re-raise, or move the cursor and go round again
OnStartTooEarly(earliest_dt) ==
    IF Unsatisfiable(earliest_dt)
    THEN [pc |-> "failed", start_dt |-> start_dt]
    ELSE [pc |-> "loop", start_dt |-> earliest_dt]

\* a sub-query answered with an error payload naming the earliest epoch
ChunkStartTooEarly ==
    /\ InLoop
    /\ \E resp \in ErrorResponses :
          LET earliest_dt == parse_earliest_from_error(resp.at)
          IN  /\ Once(resp) = "StartTooEarly"
              /\ calls' = Logged(resp)
              /\ pc' = OnStartTooEarly(earliest_dt).pc
              /\ start_dt' = OnStartTooEarly(earliest_dt).start_dt
    /\ UNCHANGED <<script, start_time, stop_dt, step_s, max_samples,
                   all_t, all_pv, logging>>
    /\ UNCHANGED <<parsevars, mainvars>>

\* a sub-query that makes horizons_vectors_once raise RuntimeError
ChunkError ==
    /\ InLoop
    /\ \E resp \in ErrorResponses \cup {NoResultResp, NoMarkersResp}
                   \cup {BlockResp(f) :
                           f \in ServerFragments(start_dt, chunk_stop)} :
          /\ Once(resp) = "RuntimeError"
          /\ calls' = Logged(resp)
    /\ pc' = "failed"
    /\ UNCHANGED <<script, start_time, stop_dt, step_s, max_samples,
                   start_dt, all_t, all_pv, logging>>
    /\ UNCHANGED <<parsevars, mainvars>>

\* the while condition is false: lines 254-257
LoopExit ==
    /\ script = "chunked" /\ pc = "loop" /\ ~(start_dt < stop_dt)
    /\ pc' = IF InvalidOutput(all_t, all_pv) THEN "failed" ELSE "done"
    /\ UNCHANGED <<script, start_time, stop_dt, step_s, max_samples,
                   start_dt, all_t, all_pv, calls, logging>>
    /\ UNCHANGED <<parsevars, mainvars>>

-----------------------------------------------------------------------------
(* horizons_vectors of generate_ephemeris.py: one call over the window *)

HorizonsVectors ==
    /\ script = "single" /\ pc = "loop"
    /\ \E resp \in ErrorResponses \cup {NoResultResp, NoMarkersResp}
                   \cup {BlockResp(f) : f \in ServerFragments(start_dt, stop_dt)} :
          LET p == ParseVectors(BlockOf(resp.t))
          IN  /\ calls' = IF logging
                           THEN Append(calls, [s |-> start_dt, e |-> stop_dt,
                                               r |-> resp,
                                               x |-> OnceSingle(resp)])
                           ELSE calls
              /\ IF OnceSingle(resp) = "fragment"
                 THEN pc' = "done" /\ all_t' = p.t /\ all_pv' = p.pv
                 ELSE pc' = "failed" /\ UNCHANGED <<all_t, all_pv>>
    /\ UNCHANGED <<script, start_time, stop_dt, step_s, max_samples, start_dt,
                   logging>>
    /\ UNCHANGED <<parsevars, mainvars>>

-----------------------------------------------------------------------------

NotParsed == [done |-> FALSE, ok |-> FALSE, t |-> << >>, pv |-> << >>]

\* no text is being parsed
ParseIdle == input = << >> /\ parsed = NotParsed

\* main is not running
MainIdle ==
    /\ mpc = "idle" /\ n_bodies = 0 /\ t_ref = << >> /\ objects = << >>
    /\ fetched = << >> /\ written = << >> /\ err = << >>

\* a fetch is entered: one of the two fetch functions, over some window
FetchInit ==
    /\ script \in {"chunked", "single"}
    /\ start_time \in 0..MaxStart
    /\ stop_dt \in 0..MaxT
    /\ step_s \in 1..MaxStep
    /\ max_samples \in 2..MaxSamplesBound
    /\ start_dt = start_time
    /\ all_t = << >>
    /\ all_pv = << >>
    /\ pc = "loop"
    /\ calls = << >>

Init == FetchInit /\ logging = TRUE /\ ParseIdle /\ MainIdle

-----------------------------------------------------------------------------
(* main.  A fetch made by main is one step here: it returns a Series with   *)
(* at least two epochs and six components per epoch, or it raises.         *)

\* t_ref = None
NoRef == << >>

\* the flattened vectors of the samples whose epochs are t
VectorsOf(t) ==
    [n \in 1..(6 * Len(t)) |-> Comp(t[((n - 1) \div 6) + 1], ((n - 1) % 6) + 1)]

\* epochs one second apart, the k-th late by d quanta
DriftedEpochs(n, k, d) ==
    [i \in 1..n |-> JD(i - 1) + (IF i = k THEN d ELSE 0)]

\* what a fetch for a tracked body may return
BodySeries ==
    {DriftedEpochs(n, k, d) : n \in 2..MaxSeriesLen, k \in 1..MaxSeriesLen,
                              d \in 0..MaxDrift}

\* what a fetch for the probe or for a window may return
ProbeSeries == {DriftedEpochs(n, 1, 0) : n \in 2..MaxSeriesLen}

Raised == [ok |-> FALSE, t |-> << >>, pv |-> << >>]

Fetched(t) == [ok |-> TRUE, t |-> t, pv |-> VectorsOf(t)]

\* the grid check that accepts only differences below the tolerance
GridMismatchStrict(t, ref) ==
    \/ Len(t) # Len(ref)
    \/ \E i \in 1..Len(t) : Abs(t[i] - ref[i]) >= Tol

\* the grid check without the comparison of the lengths
GridMismatchValuesOnly(t, ref) ==
    \E i \in 1..Min(Len(t), Len(ref)) : Abs(t[i] - ref[i]) > Tol

\* the grid check of the bodies loop: TRUE when main raises
GridMismatch(t, ref) ==
    \/ Len(t) # Len(ref)
    \/ \E i \in 1..Len(t) : Abs(t[i] - ref[i]) > Tol

\* the message raised where the lengths differ
LengthMismatchMessage(name) == <<"Time grid mismatch", name>>

\* the message raised where an epoch differs
ValueMismatchMessage(name) == <<"Time grid mismatch", name>>

FetchFailedMessage == <<"fetch failed", 0>>

AssertionMessage == <<"AssertionError", 0>>

NoMessage == << >>

File(name, t, pv) == [file |-> name, t_jd |-> t, pv |-> pv]

\* one iteration of the loop over MAJOR_BODIES
FetchBody ==
    /\ mpc = "bodies" /\ Len(objects) < n_bodies
    /\ \E r \in {Raised} \cup {Fetched(t) : t \in BodySeries} :
          LET name == Len(objects) + 1
          IN  /\ fetched' = Append(fetched, [what |-> "body", r |-> r])
              /\ IF ~r.ok
                 THEN /\ mpc' = "failed" /\ err' = FetchFailedMessage
                      /\ UNCHANGED <<t_ref, objects>>
                 ELSE IF t_ref = NoRef
                 THEN /\ t_ref' = r.t
                      /\ objects' = Append(objects, r.pv)
                      /\ UNCHANGED <<mpc, err>>
                 ELSE IF GridMismatch(r.t, t_ref)
                 THEN /\ mpc' = "failed"
                      /\ err' = IF Len(r.t) # Len(t_ref)
                                THEN LengthMismatchMessage(name)
                                ELSE ValueMismatchMessage(name)
                      /\ UNCHANGED <<t_ref, objects>>
                 ELSE /\ objects' = Append(objects, r.pv)
                      /\ UNCHANGED <<mpc, t_ref, err>>
    /\ UNCHANGED <<n_bodies, written, script>>
    /\ UNCHANGED <<start_time, stop_dt, step_s, max_samples, start_dt,
                   all_t, all_pv, pc, calls, logging, parsevars>>

\* the loop over MAJOR_BODIES is left: the planets file is written.  The
\* assert of generate_ephemeris.py raises, or is compiled away (python -O)
WritePlanets ==
    /\ mpc = "bodies" /\ Len(objects) = n_bodies
    /\ \/ /\ script = "single" /\ t_ref = NoRef
          /\ mpc' = "failed" /\ err' = AssertionMessage
          /\ UNCHANGED written
       \/ /\ written' = Append(written, File("planets", t_ref, objects))
          /\ mpc' = "probe"
          /\ UNCHANGED err
    /\ UNCHANGED <<n_bodies, t_ref, objects, fetched, fetchvars, parsevars>>

\* the stages with the last window left out
NextStageSkipsWindow(m) ==
    IF m = "probe" THEN "window1" ELSE "manifest"

\* the stage that follows the probe and each window
NextStage(m) ==
    IF m = "probe" THEN "window1"
    ELSE IF m = "window1" THEN "window2"
    ELSE "manifest"

\* the probe or a high-resolution window: fetched, then written
FetchAndWrite ==
    /\ mpc \in {"probe", "window1", "window2"}
    /\ \E r \in {Raised} \cup {Fetched(t) : t \in ProbeSeries} :
          /\ fetched' = Append(fetched, [what |-> mpc, r |-> r])
          /\ IF r.ok
             THEN /\ written' = Append(written, File(mpc, r.t, r.pv))
                  /\ mpc' = NextStage(mpc)
                  /\ UNCHANGED err
             ELSE /\ mpc' = "failed" /\ err' = FetchFailedMessage
                  /\ UNCHANGED written
    /\ UNCHANGED <<n_bodies, t_ref, objects, fetchvars, parsevars>>

WriteManifest ==
    /\ mpc = "manifest"
    /\ written' = Append(written,
                         File("manifest", << >>,
                              <<"planets", "probe", "window1", "window2">>))
    /\ mpc' = "done"
    /\ UNCHANGED <<n_bodies, t_ref, objects, fetched, err, fetchvars, parsevars>>

\* no fetch of its own is being traced
FetchIdle ==
    /\ script \in {"chunked", "single"}
    /\ start_time = 0 /\ stop_dt = 0 /\ step_s = 1 /\ max_samples = 2
    /\ start_dt = 0 /\ all_t = << >> /\ all_pv = << >>
    /\ pc = "idle" /\ calls = << >> /\ logging = FALSE

MainInit ==
    /\ FetchIdle /\ ParseIdle
    /\ mpc = "bodies"
    /\ n_bodies \in 0..MaxBodies
    /\ t_ref = NoRef
    /\ objects = << >>
    /\ fetched = << >>
    /\ written = << >>
    /\ err = NoMessage

MainNext ==
    \/ FetchBody
    \/ WritePlanets
    \/ FetchAndWrite
    \/ WriteManifest

SpecMain == MainInit /\ [][MainNext]_vars

-----------------------------------------------------------------------------
(* parse_vectors / _parse_vectors_csv_block on a block of its own *)

\* lines that carry the epoch x
EpochLines(x) ==
    {Line8(x), Line7(x),
     Line8(x) \o <<Txt>>,
     [Line8(x) EXCEPT ![2] = 7],
     [Line8(x) EXCEPT ![3] = Signed(x)],
     [Line8(x) EXCEPT ![5] = Txt],
     [Line7(x) EXCEPT ![4] = Txt],
     [Line7(x) EXCEPT ![1] = Signed(x)],
     SubSeq(Line7(x), 1, 6)}

\* the blank line, a header, a line that begins with a date
OtherLines == {<< >>, <<Txt>>, [Line8(0) EXCEPT ![1] = DigitTxt]}

InputLines == OtherLines \cup UNION {EpochLines(x) : x \in 0..MaxLineEpoch}

ParseInit ==
    /\ FetchIdle /\ script = "chunked" /\ MainIdle
    /\ input \in UNION {[1..n -> InputLines] : n \in 0..MaxLines}
    /\ parsed = NotParsed

Parse ==
    /\ ~parsed.done
    /\ LET r == ParseVectors(input)
       IN  parsed' = [done |-> TRUE, ok |-> r.ok, t |-> r.t, pv |-> r.pv]
    /\ UNCHANGED <<input, fetchvars, mainvars>>

ParseNext == Parse

SpecParse == ParseInit /\ [][ParseNext]_vars

-----------------------------------------------------------------------------

Next ==
    \/ ChunkFetched
    \/ ChunkStartTooEarly
    \/ ChunkError
    \/ LoopExit
    \/ HorizonsVectors

Spec == Init /\ [][Next]_vars

\* the fetch without the record of its sub-queries: the loop itself puts no
\* bound on their number
LiveInit == FetchInit /\ logging = FALSE /\ ParseIdle /\ MainIdle

\* the interpreter takes the next step of a fetch that has one to take, and
\* request_json returns or raises after its timeout and retries
LiveSpec == LiveInit /\ [][Next]_vars /\ WF_vars(Next)

-----------------------------------------------------------------------------
(* Vocabulary of the properties *)

Chunked == script = "chunked"

Returned == pc = "done"

Failed == pc = "failed"

IsBlock(c) == c.r.kind = "block"

\* an error payload that EARLIEST_RE matches
IsSignal(c) == c.r.kind = "error" /\ c.r.at # NoMatch

AllGrid == \A i \in DOMAIN calls : IsGridCall(calls[i])

StrictlyIncreasing(t) == \A i \in 1..(Len(t) - 1) : t[i] < t[i + 1]

NoNearDuplicates(t) ==
    \A i, j \in DOMAIN t : i # j => Abs(t[i] - t[j]) >= Tol

\* every vector component sits under the epoch of its sample
Aligned(t, pv) ==
    /\ Len(pv) = 6 * Len(t)
    /\ \A i \in DOMAIN t : \A j \in 1..6 : pv[6 * (i - 1) + j] = Comp(t[i], j)

-----------------------------------------------------------------------------
\* C1: over a non-empty window whose length is a multiple of the step, with
\* every sub-query answered by the grid samples of its bounds, the chunked
\* fetch does not fail and what it returns is exactly the epochs start,
\* start+step, ..., stop: floor((stop-start)/step)+1 samples, however many
\* sub-queries the window was split into.
C1_GridSamples ==
    (/\ Chunked /\ AllGrid
     /\ start_time < stop_dt
     /\ (stop_dt - start_time) % step_s = 0)
    => /\ ~Failed
       /\ Returned =>
            /\ Len(all_t) = (stop_dt - start_time) \div step_s + 1
            /\ \A i \in DOMAIN all_t :
                  all_t[i] = JD(start_time + (i - 1) * step_s)
            /\ all_t[Len(all_t)] = JD(stop_dt)

C1_Witness ==
    /\ Chunked /\ Returned /\ AllGrid
    /\ (stop_dt - start_time) % step_s = 0
    /\ Len(calls) >= 3
    /\ Len(all_t) = 4

\* C2: no two epochs of a returned Series are closer than the tolerance,
\* whatever the sub-query responses were.
C2_NoDuplicates == (Chunked /\ Returned) => NoNearDuplicates(all_t)

\* C3: the epochs of a returned Series are strictly increasing, inside the
\* first fragment and across fragment boundaries alike.
C3_Increasing == (Chunked /\ Returned) => StrictlyIncreasing(all_t)


-----------------------------------------------------------------------------
(* Signals *)

\* the epoch carried by the StartTooEarly raised for the call
SignalOf(c) == parse_earliest_from_error(c.r.at)

HasSignal == \E i \in DOMAIN calls : IsSignal(calls[i])

LastSignal == CHOOSE k \in DOMAIN calls :
                 IsSignal(calls[k]) /\ \A j \in DOMAIN calls : j > k => ~IsSignal(calls[j])

\* every response is a signal or the grid samples of its sub-query
OnlyGridAndSignals ==
    \A i \in DOMAIN calls : IsSignal(calls[i]) \/ IsGridCall(calls[i])

NoBlockBefore(k) == \A j \in 1..(k - 1) : ~IsBlock(calls[j])

\* C4 as stated, for a service that sends one signal and answers every
\* other sub-query with the grid samples: once the signal E with
\* start <= E < stop has arrived, the fetch returns a Series whose first
\* epoch is >= E and whose last epoch is stop.
C4_Original ==
    \A i \in DOMAIN calls :
       (/\ Chunked /\ pc # "loop" /\ OnlyGridAndSignals
        /\ IsSignal(calls[i])
        /\ \A j \in DOMAIN calls : j # i => ~IsSignal(calls[j])
        /\ start_time <= SignalOf(calls[i]) /\ SignalOf(calls[i]) < stop_dt)
       => /\ Returned
          /\ all_t[1] >= JD(SignalOf(calls[i]))
          /\ all_t[Len(all_t)] = JD(stop_dt)

\* C4 as amended: when the last signal E of a fetch has start <= E < stop
\* and arrives before any fragment, and every data response carries the
\* grid samples of its sub-query, a returned Series is exactly E, E+step,
\* ... up to the last such epoch <= stop (first epoch E; last epoch stop
\* only when stop-E is a multiple of step), and the fetch does return when
\* stop-E is a multiple of step.
C4_ShiftedSeries ==
    (/\ Chunked /\ OnlyGridAndSignals /\ HasSignal
     /\ NoBlockBefore(LastSignal)
     /\ start_time <= SignalOf(calls[LastSignal])
     /\ SignalOf(calls[LastSignal]) < stop_dt)
    => LET E == SignalOf(calls[LastSignal])
       IN  /\ Returned =>
                /\ all_t = GridFragment(E, stop_dt, step_s)
                /\ all_t[1] = JD(E)
                /\ all_t[Len(all_t)] = JD(E + ((stop_dt - E) \div step_s) * step_s)
                /\ stop_dt - E >= step_s
           /\ (stop_dt - E) % step_s = 0 => ~Failed

C4_Witness ==
    /\ Chunked /\ Returned /\ OnlyGridAndSignals /\ HasSignal
    /\ NoBlockBefore(LastSignal)
    /\ start_time < SignalOf(calls[LastSignal])
    /\ (stop_dt - SignalOf(calls[LastSignal])) % step_s # 0
    /\ all_t[1] = JD(SignalOf(calls[LastSignal]))
    /\ all_t[Len(all_t)] < JD(stop_dt)

\* C5: a signal E >= stop ends the fetch in failure: nothing is returned
\* and the sub-query that drew the signal is the last one issued.
C5_UnsatisfiableFails ==
    \A i \in DOMAIN calls :
       (Chunked /\ IsSignal(calls[i]) /\ SignalOf(calls[i]) >= stop_dt)
       => (Failed /\ ~Returned /\ i = Len(calls))

C5_Witness ==
    /\ Chunked /\ Failed
    /\ Len(calls) >= 2
    /\ IsSignal(calls[Len(calls)])
    /\ SignalOf(calls[Len(calls)]) = stop_dt
    /\ Len(all_t) >= 2

\* the number of leading samples of t that do not exceed the last accepted
\* epoch by more than the tolerance
LeadingDuplicates(t, last) ==
    CHOOSE k \in 0..Len(t) :
       /\ \A i \in 1..k : t[i] <= last + Tol
       /\ k < Len(t) => t[k + 1] > last + Tol

\* C6: a step that stitches a fragment onto a non-empty accumulated series
\* drops exactly the fragment's leading samples that duplicate (within
\* tolerance, not beyond the last accepted epoch) what is accepted, with
\* their six components each, and appends the remainder in order;
\* <<a, b>> followed by <<b, c>> gives <<a, b, c>>; the vectors stay
\* aligned with the epochs.
C6_StitchDropsDuplicates ==
    [][(/\ Chunked /\ all_t # << >>
        /\ Len(calls') = Len(calls) + 1
        /\ IsBlock(calls'[Len(calls')])
        /\ pc' # "failed")
       => LET t == calls'[Len(calls')].r.t
              last == all_t[Len(all_t)]
              kept == SubSeq(t, LeadingDuplicates(t, last) + 1, Len(t))
          IN  /\ all_t' = all_t \o kept
              /\ all_pv' = all_pv \o VectorsOf(kept)
              /\ Aligned(all_t', all_pv')
              /\ (Len(all_t) = 2 /\ Len(t) = 2 /\ t[1] = all_t[2]
                  /\ t[2] > t[1] + Tol)
                 => all_t' = <<all_t[1], all_t[2], t[2]>>]_vars

C6_Witness ==
    /\ Chunked /\ Len(calls) = 2
    /\ IsBlock(calls[1]) /\ IsBlock(calls[2])
    /\ Len(calls[1].r.t) = 2 /\ Len(calls[2].r.t) = 2
    /\ calls[2].r.t[1] = calls[1].r.t[2]
    /\ all_t = <<calls[1].r.t[1], calls[1].r.t[2], calls[2].r.t[2]>>
    /\ Aligned(all_t, all_pv)

Ceil(a, b) == (a + b - 1) \div b

\* no response so far is an error: each is a data block that parses
NoErrorResponses ==
    \A i \in DOMAIN calls : IsBlock(calls[i]) /\ Len(calls[i].r.t) >= 2

\* C7: without error responses the k-th sub-query is
\* [c_k, min(c_k + chunkSpan, stop)] with c_1 = start and c_(k+1) the
\* requested stop of sub-query k, so a finished fetch has issued exactly
\* ceil((stop-start)/chunkSpan) sub-queries; step 1, maxSamplesPerCall 2 and
\* a window of length 2 give two sub-queries and the three grid epochs.
C7_SubQueries ==
    (Chunked /\ NoErrorResponses)
    => LET span == step_s * (max_samples - 1)
       IN  /\ \A k \in DOMAIN calls :
                 /\ calls[k].s = start_time + (k - 1) * span
                 /\ calls[k].e = Min(calls[k].s + span, stop_dt)
                 /\ k > 1 => calls[k].s = calls[k - 1].e
           /\ (pc # "loop" /\ start_time <= stop_dt)
              => Len(calls) = Ceil(stop_dt - start_time, span)
           /\ (pc # "loop" /\ start_time < stop_dt) => Returned
           /\ (/\ pc # "loop" /\ AllGrid
               /\ step_s = 1 /\ max_samples = 2 /\ stop_dt - start_time = 2)
              => /\ Len(calls) = 2
                 /\ all_t = <<JD(start_time), JD(start_time + 1), JD(start_time + 2)>>

C7_Witness ==
    /\ Chunked /\ Returned /\ AllGrid
    /\ step_s = 1 /\ max_samples = 2 /\ stop_dt - start_time = 2
    /\ Len(calls) = 2
    /\ calls[2].s = calls[1].e
    /\ all_t = <<JD(start_time), JD(start_time + 1), JD(start_time + 2)>>

\* C8 as stated: the sub-query that follows a signal starts at the epoch E
\* the message states.
C8_Original ==
    \A i \in 1..(Len(calls) - 1) :
       (Chunked /\ IsSignal(calls[i])) => calls[i + 1].s = calls[i].r.at

\* the first sub-query that delivered a data block
FirstBlock == CHOOSE k \in DOMAIN calls :
                 IsBlock(calls[k]) /\ NoBlockBefore(k)

\* C8 as amended: after a signal whose message states the epoch E (whole
\* seconds) the cursor is E plus one second: the retried sub-query starts
\* at E + 1 s, and when that retry is the first to deliver a fragment and
\* the fragment carries the grid samples, the first epoch of the returned
\* Series is E + 1 s.
C8_ShiftPastEarliest ==
    /\ \A i \in DOMAIN calls :
          (Chunked /\ IsSignal(calls[i]) /\ calls[i].r.at + 1 < stop_dt)
          => /\ i < Len(calls) => calls[i + 1].s = calls[i].r.at + 1
             /\ (i = Len(calls) /\ pc = "loop") => start_dt = calls[i].r.at + 1
    /\ (/\ Chunked /\ Returned
        /\ FirstBlock > 1
        /\ IsGridCall(calls[FirstBlock]))
       => all_t[1] = JD(calls[FirstBlock - 1].r.at + 1)

C8_Witness ==
    /\ Chunked /\ Returned
    /\ IsSignal(calls[1])
    /\ calls[2].s = calls[1].r.at + 1
    /\ calls[2].s # start_time
    /\ IsGridCall(calls[2])
    /\ all_t[1] = JD(calls[1].r.at + 1)

\* an upstream error other than a signal: an error payload the pattern does
\* not match, no result field, no $$SOE/$$EOE markers, a block that parses
\* to fewer than two samples
IsFatal(c) ==
    \/ c.r.kind \in {"no_result", "no_markers"}
    \/ c.r.kind = "error" /\ c.r.at = NoMatch
    \/ IsBlock(c) /\ Len(c.r.t) < 2

\* C9: a sub-query that ends in an upstream error other than a signal fails
\* the fetch at once: it is the last sub-query issued and nothing is
\* returned, the accumulated fragments included.
C9_FatalErrorFails ==
    \A i \in DOMAIN calls :
       (Chunked /\ IsFatal(calls[i]))
       => (Failed /\ ~Returned /\ i = Len(calls))

C9_Witness ==
    /\ Chunked /\ Failed
    /\ Len(calls) >= 2
    /\ IsFatal(calls[Len(calls)])
    /\ IsBlock(calls[Len(calls)])
    /\ Len(all_t) >= 2

\* C10: a Series returned by the chunked or the single-call fetch has at
\* least two epochs and exactly six vector components per epoch; a fetch
\* whose accumulated result is otherwise when the loop is left has failed.
C10_ReturnedShape ==
    /\ Returned => (Len(all_t) >= 2 /\ Len(all_pv) = 6 * Len(all_t))
    /\ (/\ Chunked /\ pc # "loop" /\ ~(start_dt < stop_dt)
        /\ (Len(all_t) < 2 \/ Len(all_pv) # 6 * Len(all_t)))
       => Failed

C10_Witness ==
    /\ Returned
    /\ Len(all_t) >= 2 /\ Len(all_pv) = 6 * Len(all_t)
    /\ Len(calls) >= 1
    /\ script = "single" \/ Len(calls) >= 3

-----------------------------------------------------------------------------
(* Vocabulary of the properties of main *)

MainFailed == mpc = "failed"

\* the k-th fetch of main was for a tracked body and returned a Series
IsBodySeries(k) ==
    k \in DOMAIN fetched /\ fetched[k].what = "body" /\ fetched[k].r.ok

\* the Series of the k-th tracked body passed the grid check (the first one
\* sets the reference)
AcceptedBody(k) == IsBodySeries(k) /\ Len(objects) >= k

\* the Series of the k-th tracked body made the grid check raise
RejectedBody(k) ==
    /\ IsBodySeries(k) /\ k = Len(fetched) /\ MainFailed
    /\ err \in {LengthMismatchMessage(k), ValueMismatchMessage(k)}

SameLength(k) == Len(fetched[k].r.t) = Len(fetched[1].r.t)

\* the largest difference between an epoch of the k-th Series and the
\* epoch of the first Series at the same index is within bound
DiffsWithin(k, bound) ==
    \A i \in 1..Min(Len(fetched[k].r.t), Len(fetched[1].r.t)) :
        Abs(fetched[k].r.t[i] - fetched[1].r.t[i]) <= bound

DiffsBelow(k, bound) ==
    \A i \in 1..Min(Len(fetched[k].r.t), Len(fetched[1].r.t)) :
        Abs(fetched[k].r.t[i] - fetched[1].r.t[i]) < bound

\* C11 as stated: a Series is accepted by the grid check exactly when it
\* has the length of the first Series and every epoch differs from the
\* first Series' epoch at that index by strictly less than the tolerance;
\* a difference of exactly the tolerance is not accepted.
C11_Original ==
    \A k \in 2..Len(fetched) :
       IsBodySeries(k)
       => /\ AcceptedBody(k) <=> (SameLength(k) /\ DiffsBelow(k, Tol))
          /\ RejectedBody(k) <=> ~(SameLength(k) /\ DiffsBelow(k, Tol))

\* C11 as amended: a Series is accepted exactly when it has the length of
\* the first Series and every epoch differs from the first Series' epoch at
\* that index by at most the tolerance, and is rejected otherwise: a
\* different length is rejected, an epoch off by a whole second is
\* rejected, a difference of exactly the tolerance is accepted.
C11_GridCheck ==
    \A k \in 2..Len(fetched) :
       IsBodySeries(k)
       => /\ AcceptedBody(k) <=> (SameLength(k) /\ DiffsWithin(k, Tol))
          /\ RejectedBody(k) <=> ~(SameLength(k) /\ DiffsWithin(k, Tol))
          /\ ~SameLength(k) => RejectedBody(k)
          /\ ~DiffsBelow(k, JD(1)) => RejectedBody(k)
          /\ (SameLength(k) /\ DiffsWithin(k, Tol) /\ ~DiffsBelow(k, Tol))
             => AcceptedBody(k)

C11_Witness ==
    /\ AcceptedBody(2)
    /\ SameLength(2) /\ DiffsWithin(2, Tol) /\ ~DiffsBelow(2, Tol)
    /\ written # << >>

\* C12: in a run over at least one tracked body that failed (a fetch for a
\* body, for the probe or for a window raised, or the grid check raised)
\* nothing has been handed to the sink.
C12_NoPartialCommit == (MainFailed /\ n_bodies >= 1) => written = << >>

HasFile(name) == \E i \in DOMAIN written : written[i].file = name

\* the grid check raised
MismatchRaised ==
    MainFailed /\ \E k \in 1..MaxBodies + 1 :
                     err \in {LengthMismatchMessage(k), ValueMismatchMessage(k)}

\* C13: the planets frame is handed to the sink only when every tracked
\* body's Series has been fetched and has passed the grid check against
\* the first one; once the grid check has raised for a body, nothing is
\* written and that body's fetch is the last fetch of the run.
C13_FrameAfterAllBodies ==
    /\ HasFile("planets")
       => /\ Len(objects) = n_bodies
          /\ \A k \in 1..n_bodies :
                /\ IsBodySeries(k)
                /\ SameLength(k) /\ DiffsWithin(k, Tol)
    /\ MismatchRaised
       => /\ written = << >>
          /\ RejectedBody(Len(fetched))
          /\ Len(objects) = Len(fetched) - 1
          /\ ~ENABLED MainNext

C13_Witness ==
    /\ HasFile("planets") /\ n_bodies = 2 /\ Len(objects) = 2
    /\ fetched[2].r.t # fetched[1].r.t

\* C18: the error raised for a Series whose length differs from the
\* reference is not the error raised for a Series with an epoch off the
\* reference, and the other way round.
C18_MismatchNamed ==
    \A k \in DOMAIN fetched :
       RejectedBody(k)
       => /\ ~SameLength(k) => err # ValueMismatchMessage(k)
          /\ SameLength(k) => err # LengthMismatchMessage(k)

\* consecutive epochs of t are one step apart, within the tolerance
GapFree(t) ==
    \A i \in 1..(Len(t) - 1) : Abs(t[i + 1] - t[i] - JD(step_s)) <= Tol

\* C14: a Series returned by the chunked fetch is gap-free when every data
\* response carried the grid samples of its sub-query, signals received
\* after accepted fragments included.
C14_GapFree ==
    (Chunked /\ Returned /\ OnlyGridAndSignals) => GapFree(all_t)

\* C15: every fetch eventually returns or fails, whatever the responses.
C15_Terminates == <>(pc # "loop")

\* the samples the sub-query c asks for
SamplesAsked(c) == Len(GridFragment(c.s, c.e, step_s))

\* C16 as stated: every sub-query of either fetch function spans at most
\* step * (maxSamplesPerCall - 1), so it asks for at most maxSamplesPerCall
\* samples.
C16_Original ==
    \A k \in DOMAIN calls :
       /\ calls[k].e - calls[k].s <= step_s * (max_samples - 1)
       /\ SamplesAsked(calls[k]) <= max_samples

\* C16 as amended: every sub-query of the chunked fetch spans at most
\* step * (maxSamplesPerCall - 1) and asks for at most maxSamplesPerCall
\* samples, whatever the window and the responses; the single-call fetch
\* issues one query over the whole window, whatever its length.
C16_BoundedSubQueries ==
    /\ Chunked
       => \A k \in DOMAIN calls :
             /\ calls[k].s < calls[k].e
             /\ calls[k].e - calls[k].s <= step_s * (max_samples - 1)
             /\ calls[k].e <= stop_dt
             /\ SamplesAsked(calls[k]) <= max_samples
    /\ ~Chunked
       => /\ Len(calls) <= 1
          /\ \A k \in DOMAIN calls :
                calls[k].s = start_time /\ calls[k].e = stop_dt

C16_Witness ==
    /\ Chunked /\ Len(calls) >= 2
    /\ stop_dt - start_time > step_s * (max_samples - 1)
    /\ SamplesAsked(calls[1]) = max_samples
    /\ HasSignal

\* C17: in the chunked fetch an error payload ends the sub-query with the
\* signal (StartTooEarly) exactly when the earliest-epoch pattern matches
\* its text; any other error payload ends it with the generic RuntimeError
\* and fails the fetch; a payload without error never gives a signal.
C17_Classification ==
    Chunked
    => \A k \in DOMAIN calls :
          LET c == calls[k]
          IN  /\ c.r.kind = "error"
                 => /\ c.x = "StartTooEarly" <=> c.r.at # NoMatch
                    /\ c.r.at = NoMatch
                       => (c.x = "RuntimeError" /\ Failed /\ k = Len(calls))
              /\ c.r.kind # "error" => c.x # "StartTooEarly"
              /\ (c.x = "StartTooEarly" /\ c.r.at + 1 < stop_dt /\ k = Len(calls))
                 => (pc = "loop" /\ start_dt = c.r.at + 1)

C17_Witness ==
    /\ Chunked /\ Len(calls) = 3
    /\ calls[1].r.kind = "error" /\ calls[1].x = "StartTooEarly"
    /\ calls[2].r.kind = "block" /\ calls[2].x = "fragment"
    /\ calls[3].r.kind = "error" /\ calls[3].x = "RuntimeError"
    /\ Failed

-----------------------------------------------------------------------------
(* Vocabulary of the properties of the parser *)

\* the fields of a line from which the vector is read
VectorFields(parts) ==
    IF Len(parts) >= 8 THEN SubSeq(parts, 3, 8) ELSE SubSeq(parts, 2, 7)

\* the line gives a sample: it begins with a digit, has 7 fields or more,
\* and its epoch field and its six vector fields are numbers
AcceptedLine(parts) ==
    /\ Len(parts) >= 7
    /\ StartsWithDigit(parts[1]) /\ IsFloat(parts[1])
    /\ \A j \in 1..6 : IsFloat(VectorFields(parts)[j])

RECURSIVE Flatten(_)
Flatten(seqs) ==
    IF seqs = << >> THEN << >> ELSE Head(seqs) \o Flatten(Tail(seqs))

AcceptedLines == SelectSeq(input, AcceptedLine)

\* C19: of a block that parses, every line that gives a sample gives its
\* field 0 as the epoch and, with 8 fields or more, its fields 2..7 as the
\* vector (field 1 is ignored), with exactly 7 fields its fields 1..6; the
\* epochs and the vectors come out in line order, one epoch and six
\* components per accepted line.
C19_Layout ==
    (parsed.done /\ parsed.ok)
    => /\ parsed.t = [i \in 1..Len(AcceptedLines) |-> AcceptedLines[i][1]]
       /\ parsed.pv = Flatten([i \in 1..Len(AcceptedLines) |->
                                 VectorFields(AcceptedLines[i])])
       /\ Len(parsed.pv) = 6 * Len(parsed.t)
       /\ \A i \in 1..Len(AcceptedLines) :
             LET parts == AcceptedLines[i]
             IN  /\ Len(parts) >= 8
                    => \A j \in 1..6 : parsed.pv[6 * (i - 1) + j] = parts[j + 2]
                 /\ Len(parts) = 7
                    => \A j \in 1..6 : parsed.pv[6 * (i - 1) + j] = parts[j + 1]

C19_Witness ==
    /\ parsed.done /\ parsed.ok
    /\ Len(input) = 3
    /\ Len(input[1]) = 8 /\ Len(input[2]) = 7 /\ Len(input[3]) = 9
    /\ IsFloat(input[1][2])
    /\ Len(parsed.t) = 3

\* a line the parser is to skip: blank, not beginning with a digit, fewer
\* than 7 fields, or with an epoch or vector field that is no number
SkippedLine(parts) ==
    \/ Len(parts) = 0
    \/ ~StartsWithDigit(parts[1])
    \/ Len(parts) < 7
    \/ ~IsFloat(parts[1])
    \/ \E j \in 1..6 : ~IsFloat(VectorFields(parts)[j])

KeptLine(parts) == ~SkippedLine(parts)

\* C20: lines to be skipped give no sample and do not end the parse: the
\* parser's result on a block, the failure for too few samples included,
\* is its result on the block with those lines removed, and a block that
\* parses has one epoch per remaining line.
C20_SkippedLines ==
    parsed.done
    => LET r == ParseVectors(SelectSeq(input, KeptLine))
       IN  /\ parsed.ok = r.ok
           /\ parsed.t = r.t
           /\ parsed.pv = r.pv
           /\ parsed.ok => Len(parsed.t) = Len(SelectSeq(input, KeptLine))
           /\ parsed.ok
              => parsed.t = [i \in 1..Len(SelectSeq(input, KeptLine)) |->
                               SelectSeq(input, KeptLine)[i][1]]

C20_Witness ==
    /\ parsed.done /\ parsed.ok
    /\ Len(input) = 3
    /\ ~SkippedLine(input[1]) /\ SkippedLine(input[2]) /\ ~SkippedLine(input[3])
    /\ input[2] # << >> /\ StartsWithDigit(input[2][1]) /\ Len(input[2]) >= 7
    /\ parsed.t = <<input[1][1], input[3][1]>>

\* C21: the parser raises exactly when fewer than 2 lines of the block give
\* a sample, returning nothing then; otherwise it returns at least 2
\* epochs and 6 vector components per epoch.
C21_PostCondition ==
    parsed.done
    => /\ ~parsed.ok <=> Len(AcceptedLines) < 2
       /\ ~parsed.ok => (parsed.t = << >> /\ parsed.pv = << >>)
       /\ parsed.ok
          => /\ Len(parsed.t) >= 2
             /\ Len(parsed.t) = Len(AcceptedLines)
             /\ Len(parsed.pv) = 6 * Len(parsed.t)

C21_Witness ==
    /\ parsed.done /\ ~parsed.ok
    /\ Len(input) = 3 /\ Len(AcceptedLines) = 1
    /\ AcceptedLine(input[2])

HandledSignal(c) == IsSignal(c) /\ SignalOf(c) < stop_dt

\* C23: a sub-query answered by a signal whose epoch lies before the end of
\* the window leaves the accumulated epochs and vectors as they were, moves
\* the cursor to that epoch and keeps the fetch in its loop; the sub-query
\* made next starts at that epoch.
C23_SignalMovesCursorOnly ==
    [][(Chunked /\ Len(calls') = Len(calls) + 1)
       => LET c == calls'[Len(calls')]
          IN  /\ HandledSignal(c)
                 => /\ all_t' = all_t /\ all_pv' = all_pv
                    /\ start_dt' = SignalOf(c)
                    /\ pc' = "loop" /\ start_dt' < stop_dt
              /\ (calls # << >> /\ HandledSignal(calls[Len(calls)]))
                 => c.s = SignalOf(calls[Len(calls)])]_vars

C23_Witness ==
    /\ Chunked /\ Len(calls) = 3 /\ all_t # << >>
    /\ IsBlock(calls[1])
    /\ HandledSignal(calls[2])
    /\ calls[3].s = SignalOf(calls[2])
    /\ calls[3].s # calls[2].s

\* a step that stitches the fragment of a data block onto accepted samples
StitchStep ==
    /\ Chunked /\ all_t # << >>
    /\ Len(calls') = Len(calls) + 1
    /\ IsBlock(calls'[Len(calls')])
    /\ Len(calls'[Len(calls')].r.t) >= 2

\* the first sample of the stitched fragment is not appended
FirstDropped == all_t' # all_t \o calls'[Len(calls')].r.t

\* C24 as stated: the first sample of a stitched fragment is dropped only
\* when it is closer than the tolerance to the last accepted epoch; at
\* exactly the tolerance beyond it, it is appended.
C24_Original ==
    [][StitchStep
       => (FirstDropped
           => Abs(calls'[Len(calls')].r.t[1] - all_t[Len(all_t)]) < Tol)]_vars

\* C24 as amended: the first sample of a stitched fragment is dropped
\* exactly when its epoch is at most the last accepted epoch plus the
\* tolerance, the bound included and however far before the last accepted
\* epoch it lies; only beyond the bound is it appended.
C24_InclusiveTolerance ==
    [][StitchStep
       => (FirstDropped
           <=> calls'[Len(calls')].r.t[1] <= all_t[Len(all_t)] + Tol)]_vars

C24_Witness ==
    /\ Chunked /\ Len(calls) = 2
    /\ IsGridCall(calls[1]) /\ IsBlock(calls[2])
    /\ Len(calls[1].r.t) >= 2 /\ Len(calls[2].r.t) >= 2
    /\ calls[2].r.t[1] = calls[1].r.t[Len(calls[1].r.t)] + Tol
    /\ all_t = calls[1].r.t \o Tail(calls[2].r.t)

\* C25: no step of a chunked fetch moves the cursor backwards, be it the
\* step of an accepted fragment or that of a handled signal.
C25_CursorMonotone == [][Chunked => start_dt' >= start_dt]_vars

\* what is left of the window after the sub-queries of full span
TailSpan == (stop_dt - start_time) % max_span_s

\* C26: a data block of fewer than 2 samples fails the fetch at the
\* sub-query that received it, whatever was accumulated; and when every
\* sub-query is answered by the grid samples of its bounds over a window
\* that ends with a remainder shorter than one step, the fetch returns
\* nothing: it fails at the sub-query [stop - remainder, stop], whose one
\* sample is the cursor.
C26_ShortTailFails ==
    /\ \A i \in DOMAIN calls :
          (Chunked /\ IsBlock(calls[i]) /\ Len(calls[i].r.t) < 2)
          => (Failed /\ i = Len(calls))
    /\ (/\ Chunked /\ AllGrid /\ start_time < stop_dt
        /\ 0 < TailSpan /\ TailSpan < step_s)
       => /\ ~Returned
          /\ pc # "loop"
             => /\ Failed
                /\ calls[Len(calls)].s = stop_dt - TailSpan
                /\ calls[Len(calls)].e = stop_dt
                /\ calls[Len(calls)].r.t = <<JD(stop_dt - TailSpan)>>

C26_Witness ==
    /\ Chunked /\ Failed /\ AllGrid
    /\ 0 < TailSpan /\ TailSpan < step_s
    /\ Len(calls) = 2
    /\ Len(all_t) >= 2
    /\ Len(calls[2].r.t) = 1

\* C27: a chunked fetch over a window that does not start before its stop
\* makes no sub-query and accumulates nothing; it never returns, and once
\* it has left the loop it has failed.
C27_EmptyWindowFails ==
    (Chunked /\ start_time >= stop_dt)
    => /\ calls = << >>
       /\ all_t = << >> /\ all_pv = << >>
       /\ ~Returned
       /\ pc # "loop" => Failed

C27_Witness ==
    /\ Chunked /\ start_time >= stop_dt
    /\ Failed /\ calls = << >>

\* C28: the fetch of generate_ephemeris.py makes one call, over the whole
\* window, and is over after it; every error payload, the one naming an
\* earliest epoch included, ends it in RuntimeError with nothing returned
\* and the window where it was.
C28_SingleCall ==
    script = "single"
    => /\ Len(calls) <= 1
       /\ pc # "loop" <=> Len(calls) = 1
       /\ start_dt = start_time
       /\ \A i \in DOMAIN calls :
             /\ calls[i].s = start_time /\ calls[i].e = stop_dt
             /\ calls[i].r.kind = "error"
                => /\ calls[i].x = "RuntimeError"
                   /\ Failed /\ all_t = << >> /\ all_pv = << >>

C28_Witness ==
    /\ script = "single" /\ Failed
    /\ Len(calls) = 1 /\ IsSignal(calls[1])
    /\ SignalOf(calls[1]) < stop_dt
    /\ start_time < SignalOf(calls[1])

\* the k-th fetch of main returned the series that the file f holds
FetchedFor(k, f) ==
    /\ k \in DOMAIN fetched
    /\ fetched[k].what = f.file /\ fetched[k].r.ok
    /\ f.t_jd = fetched[k].r.t /\ f.pv = fetched[k].r.pv

\* C29: once the manifest is written it is the last file written and the
\* run is over without failure; the files written before it are, in this
\* order, the planets frame, the probe series and the windows, which are
\* the datasets the manifest lists in the order it lists them; every body
\* of the frame was fetched, and the probe series and each window hold
\* what a fetch made after the body fetches, in the same order, returned.
C29_ManifestLast ==
    HasFile("manifest")
    => LET m == written[Len(written)]
       IN  /\ m.file = "manifest"
           /\ mpc = "done" /\ err = NoMessage
           /\ Len(written) = Len(m.pv) + 1
           /\ \A i \in DOMAIN m.pv : written[i].file = m.pv[i]
           /\ m.pv[1] = "planets"
           /\ Len(fetched) = n_bodies + Len(m.pv) - 1
           /\ \A k \in 1..n_bodies : IsBodySeries(k)
           /\ \A i \in 2..Len(m.pv) :
                 FetchedFor(n_bodies + i - 1, written[i])

C29_Witness ==
    /\ HasFile("manifest") /\ mpc = "done"
    /\ n_bodies = 2
    /\ Len(written) = 5 /\ Len(fetched) = 5

\* C30: a planets frame that was written has one entry per tracked body,
\* in the order of the fetches; its epoch axis is the epoch sequence the
\* first body's fetch returned; and the entry of each body is the vector
\* array its fetch returned, of 6 components per epoch of that axis.
C30_FrameShape ==
    \A i \in DOMAIN written :
       written[i].file = "planets"
       => LET f == written[i]
          IN  /\ Len(f.pv) = n_bodies
              /\ n_bodies >= 1
                 => (IsBodySeries(1) /\ f.t_jd = fetched[1].r.t)
              /\ \A b \in DOMAIN f.pv :
                    /\ IsBodySeries(b)
                    /\ f.pv[b] = fetched[b].r.pv
                    /\ Len(f.pv[b]) = 6 * Len(f.t_jd)

C30_Witness ==
    /\ HasFile("planets") /\ n_bodies = 2
    /\ written[1].t_jd = fetched[1].r.t
    /\ fetched[2].r.t # fetched[1].r.t
    /\ Len(written[1].pv) = 2

====
